---- MODULE Spec2Model ----
(***************************************************************************)
(* JABS (Just Another Backup Script): the controller Jabs.run of           *)
(* src/jabs.py: the PID-file lock, the scheduler filters, the per-set      *)
(* pipeline and the interval cache, for a small number of invocations      *)
(* started by cron on the same configuration, PID file and cache dir.      *)
(***************************************************************************)
EXTENDS Integers, Sequences, FiniteSets, TLC

(* ------------------------------ bounds -------------------------------- *)

\* clock resolution: ticks per second (datetime.now() is finer than the
\* whole seconds the cache file and the configuration hold)
TicksPerSec == 2

\* last clock tick an invocation reads
MaxTime == 5

\* longest stderr of a transfer, in pieces of text
MaxErrLen == 3

\* largest HANOI (number of sets of the rotation)
MaxHanoi == 3

\* last hanoi day, counted from HANOIDAY
MaxDay == 17

\* longest option, source or destination, in pieces of text
MaxTok == 2

\* most entries in the parent directory of a destination
MaxDirs == 2

\* most lines a transfer writes, on stdout and stderr together
MaxLines == 3

\* lines a pipe holds before a write to it blocks
PipeCap == 1

(* --------------------------- configuration ---------------------------- *)

\* the invocations of Jabs.run, one process each; the pid is the index
Inv == {1, 2}

\* the sections of the largest configuration file
SetIds == {1, 2, 3}

\* time(23,59,59), the default end of RUNTIME, in seconds
DayEndSecs == 86399

\* seconds in a day: starttime.time() is the time of day of starttime
DaySecs == 86400

\* self.skiponpreerror of a set whose SKIPONPREERROR, in its section or
\* else in Global, is conf (<<>> when it is in neither): getboolean with
\* the default None, which `if s.skiponpreerror` reads as false
SkipOnPreError(conf) == IF conf = <<>> THEN FALSE ELSE conf[1]

\* BackupSet built from a section that only holds the mandatory keys
DefaultSet ==
  [ pri |-> 0, disabled |-> FALSE, interval |-> 0,
    runtime |-> <<0, DayEndSecs>>, ping |-> FALSE, remsrc |-> FALSE,
    remdst |-> FALSE, hardlink |-> FALSE, pre |-> 0,
    skipconf |-> <<>>, skiponpreerror |-> SkipOnPreError(<<>>),
    checkdst |-> FALSE, program |-> "rsync",
    ndirs |-> 1, umount |-> FALSE, mailto |-> FALSE, mount |-> FALSE,
    ndel |-> 0, hanoi |-> 0, hanoiday |-> 1 ]

\* INTERVAL = 1s, two directories in BACKUPLIST, one in DELETELIST, a
\* report by mail
TimedSet ==
  [DefaultSet EXCEPT !.interval = 1, !.ndirs = 2, !.mailto = TRUE,
                     !.ndel = 1]

\* a lower priority, a remote destination that is pinged, two pre-commands
\* that skip the set, a check of the destination, MOUNT and UMOUNT, a
\* report by mail
MailedSet ==
  [DefaultSet EXCEPT !.interval = 1, !.pri = 1, !.pre = 2,
                     !.skipconf = <<TRUE>>,
                     !.skiponpreerror = SkipOnPreError(<<TRUE>>),
                     !.checkdst = TRUE,
                     !.ping = TRUE, !.remdst = TRUE, !.umount = TRUE,
                     !.mailto = TRUE, !.mount = TRUE]

\* RUNTIME = 00:00:02-00:00:02, a remote source that is pinged, hard links,
\* two pre-commands that do not skip the set, HANOI = 1
WindowSet ==
  [DefaultSet EXCEPT !.interval = 1, !.runtime = <<2, 2>>, !.pre = 2,
                     !.ping = TRUE, !.remsrc = TRUE, !.hardlink = TRUE,
                     !.mailto = TRUE, !.hanoi = 1]

\* DISABLED = true
DisabledSet == [DefaultSet EXCEPT !.disabled = TRUE, !.interval = 1]

\* PROGRAM names neither rsync nor rclone
TarSet == [DefaultSet EXCEPT !.pri = 1, !.program = "tar"]

SetSpecs == {DefaultSet, TimedSet, MailedSet, WindowSet, DisabledSet, TarSet}

\* the configuration files: the set sections in file order
Configs ==
  [{1, 2} -> SetSpecs]
    \cup { <<MailedSet, TimedSet, [TimedSet EXCEPT !.ndirs = 1]>>,
           <<TarSet, DefaultSet, MailedSet>> }

\* the configuration files of the runs in which invocations overlap
RaceConfigs ==
  { <<[MailedSet EXCEPT !.pre = 1, !.mount = FALSE], TimedSet>>,
    <<[WindowSet EXCEPT !.pre = 1], TarSet>>,
    <<DefaultSet, DisabledSet>> }

\* the names of the set sections, in file order
SetNames == <<"Test", "Etc", "home">>

\* the arguments of Jabs.run under cron: the switches -f, -s and -b, no
\* set named (batch is read by the check of the lock only, and dropped
\* from the state once that check is passed)
Flags == [force : BOOLEAN, safe : BOOLEAN, batch : BOOLEAN, only : {<<>>}]

\* the arguments of a run by hand, which may name sets
NamedFlags ==
  [force : BOOLEAN, safe : BOOLEAN, batch : BOOLEAN,
   only : {<<>>, <<"Test">>, <<"ETC">>, <<"test", "home">>, <<"none">>}]

NoFlags == [force |-> FALSE, safe |-> FALSE, batch |-> FALSE, only |-> <<>>]

\* what reading the configuration file comes to: the sets are built, or
\* open raises IOError, or configparser raises on a malformed file, or the
\* section Global is missing, or PIDFILE is missing, or a value of a set
\* does not parse
CfgOutcomes ==
  {"ok", "IOError", "ParsingError", "NoGlobal", "NoPidfile", "BadValue"}

(* ------------------------------- state -------------------------------- *)

VARIABLES
  cfg,        \* the configuration file: sequence of set sections
  now,        \* wall clock (ticks) as last read by some invocation
  pidfile,    \* the PID file: [exists, pid]; pid = 0 when it holds no PID
  cache,      \* cache file of each set: <<>> when missing, else <<seconds>>
  stamped,    \* history: start tick of the invocation that wrote cache[s]
  pc,         \* position of each invocation inside Jabs.run
  args,       \* force / safe of each invocation
  starttime,  \* local starttime (ticks)
  sets,       \* local list `sets` (indexes of sections of cfg)
  cur,        \* index in sets of the set being executed
  hup,        \* sets whose ping returned 0
  setsuccess, \* local setsuccess of the current set
  xi,         \* index in backuplist of the current directory
  ret,        \* exit status once ended: <<>> or <<status>>
  pk,         \* index in s.pre of the pre-command to run
  failed,     \* history: a pre-command or a transfer of the set went wrong
  trace,      \* history: what the current set has spawned and mailed
  call        \* a function of jabs evaluated alone: arguments and result

vars == <<cfg, now, pidfile, cache, stamped, pc, args, starttime, sets, cur,
          hup, setsuccess, xi, ret, pk, failed, trace, call>>

\* positions at which the invocation holds the lock (its PID is written)
Scheduling == {"f_disabled", "f_runtime", "f_interval", "f_ping"}
Executing  == {"set_begin", "pre", "pre_break", "checkdst", "dst_skip",
               "xfer", "xfer_wait", "phase_c", "set_end", "phase_u",
               "phase_n", "phase_k"}
Acquired   == Scheduling \cup Executing
Running    == {"checkpid", "openpid", "writepid"} \cup Acquired
Ended      == {"exited", "crashed", "killed"}

\* a check that takes every PID it reads for a running process
AliveOrGone(p) == p \in Inv /\ pc[p] # "idle"

\* os.kill(pid, 0) succeeds: the process of invocation p exists
Alive(p) == p \in Inv /\ pc[p] \in Running

\* the set the loop `for s in sets` is at
CurSet(i) == sets[i][cur[i]]

(* --------------------------- pure functions --------------------------- *)

Range(seq) == {seq[k] : k \in 1..Len(seq)}

\* a filter that drops nothing
KeepAll(seq, keep) == seq

\* the loops `for s in sets: if <test>: newsets.append(s)`
RECURSIVE KeepOnly(_, _)
KeepOnly(seq, keep) ==
  IF seq = <<>> THEN <<>>
  ELSE (IF Head(seq) \in keep THEN <<Head(seq)>> ELSE <<>>)
       \o KeepOnly(Tail(seq), keep)

\* a sort that is not stable: x goes before the elements of equal key
RECURSIVE InsertBeforeEqual(_, _, _)
InsertBeforeEqual(seq, x, c) ==
  IF seq = <<>> THEN <<x>>
  ELSE IF c[Head(seq)].pri < c[x].pri
       THEN <<Head(seq)>> \o InsertBeforeEqual(Tail(seq), x, c)
       ELSE <<x>> \o seq

\* x is placed after every element whose key is not greater (stable)
RECURSIVE InsertByPri(_, _, _)
InsertByPri(seq, x, c) ==
  IF seq = <<>> THEN <<x>>
  ELSE IF c[Head(seq)].pri <= c[x].pri
       THEN <<Head(seq)>> \o InsertByPri(Tail(seq), x, c)
       ELSE <<x>> \o seq

\* sorted(sets, key=lambda s: s.pri)
RECURSIVE SortedByPri(_, _)
SortedByPri(seq, c) ==
  IF seq = <<>> THEN <<>>
  ELSE InsertByPri(SortedByPri(SubSeq(seq, 1, Len(seq) - 1), c),
                   seq[Len(seq)], c)

\* starttime.time(), in ticks
TimeOfDay(t) == t % (DaySecs * TicksPerSec)

\* a window whose end is exclusive
OutOfRuntimeEndExcl(rt, t) ==
  \/ rt[1] * TicksPerSec > TimeOfDay(t)
  \/ rt[2] * TicksPerSec <= TimeOfDay(t)

\* s.runtime[0] > starttime.time() or s.runtime[1] < starttime.time()
OutOfRuntime(rt, t) ==
  \/ rt[1] * TicksPerSec > TimeOfDay(t)
  \/ rt[2] * TicksPerSec < TimeOfDay(t)

\* a cache file whose first line is not a decimal integer
CorruptCache == <<"x", "\n">>

\* a filter for which a set without a timestamp has just been run
LastDoneJustNow(cf) == IF Len(cf) # 1 THEN MaxTime ELSE cf[1]

\* lastdone: the cache file's timestamp, epoch when the file is missing or
\* when int() of its first line raises ValueError
LastDone(cf) == IF Len(cf) # 1 THEN 0 ELSE cf[1]

\* an interval filter that also drops the set on the boundary
IntervalNotReachedIncl(lastdone, interval, t) ==
  (lastdone + interval) * TicksPerSec >= t

\* lastdone + s.interval > starttime
IntervalNotReached(lastdone, interval, t) ==
  (lastdone + interval) * TicksPerSec > t

\* the time of the write instead of the start of the invocation
CacheStampNow(start, clock) == clock \div TicksPerSec

\* int(mktime(starttime.timetuple())): whole seconds of the invocation start
CacheStamp(start, clock) == start \div TicksPerSec

\* `if s.ping and s.remsrc`: the sets whose host is pinged
Pinged(s) == s.ping /\ s.remsrc

\* what subprocess.call and p.wait() return: a signal, success, an error
ExitCodes == {-9, 0, 1}

\* the text b'(will try again)' inside the stderr of a transfer
RetryMark == "(will try again)"

\* what spect.output is made of: other text, the retry text, a line break
Bytes == {"x", RetryMark, "\n"}

\* spect.output: everything the transfer wrote on stderr
Outputs == UNION {[1..n -> Bytes] : n \in 0..MaxErrLen}

\* what the transfers of the runs write on stderr: nothing, a retry line,
\* another line
RunOutputs == {<<>>, <<"x", RetryMark, "\n">>, <<"x", "\n">>}

\* index of the first line break of output, 0 when it has none
RECURSIVE FirstBreak(_, _)
FirstBreak(output, k) ==
  IF k > Len(output) THEN 0
  ELSE IF output[k] = "\n" THEN k ELSE FirstBreak(output, k + 1)

\* spect.output.splitlines(): no empty last line after a final line break
RECURSIVE SplitLines(_)
SplitLines(output) ==
  IF output = <<>> THEN <<>>
  ELSE LET k == FirstBreak(output, 1)
       IN IF k = 0 THEN <<output>>
          ELSE <<SubSeq(output, 1, k - 1)>>
               \o SplitLines(SubSeq(output, k + 1, Len(output)))

\* b'(will try again)' in line
HasRetryMark(line) == \E k \in 1..Len(line) : line[k] = RetryMark

\* the loop over the lines: `continue` on a retry line, else badoutput
RECURSIVE BadOutput(_)
BadOutput(lines) ==
  IF lines = <<>> THEN FALSE
  ELSE IF HasRetryMark(Head(lines)) THEN BadOutput(Tail(lines))
       ELSE TRUE

\* an analysis that only looks at the first line of stderr
AnalyzeFirstLine(ok, r, output) ==
  IF r # 0 THEN FALSE
  ELSE IF Len(output) > 0 /\ ~HasRetryMark(Head(SplitLines(output)))
       THEN FALSE ELSE ok

\* setsuccess after `if ret != 0` and `Analyze STDERR`
Analyze(ok, r, output) ==
  LET afterret == IF r # 0 THEN FALSE ELSE ok
  IN IF Len(output) > 0 /\ BadOutput(SplitLines(output))
     THEN FALSE ELSE afterret

\* the line of output that starts at index a lacks the retry text
LineLacksMark(output, a) ==
  /\ a = 1 \/ output[a - 1] = "\n"
  /\ ~\E k \in a..Len(output) :
        /\ output[k] = RetryMark
        /\ \A j \in a..k : output[j] # "\n"

\* a transfer that exits with r and writes output on stderr went wrong
HardFailure(r, output) ==
  r # 0 \/ \E a \in 1..Len(output) : LineLacksMark(output, a)

\* a subject that does not look at setsuccess
SubjectOK(name, ok) == <<"Backup of", name, "OK">>

\* "Backup of " + s.name + " " + i, i being "OK" or "FAILED"
Subject(name, ok) == <<"Backup of", name, IF ok THEN "OK" ELSE "FAILED">>

\* the capital letters from chr(65) on
Letters == <<"A", "B", "C", "D", "E", "F", "G", "H">>

\* chr(c) of a capital letter
Chr(c) == Letters[c - 64]

\* a loop `while i > 0`: no suffix on an odd day
RECURSIVE HanoiLoopAboveZero(_, _)
HanoiLoopAboveZero(today, i) ==
  IF i <= 0 THEN ""
  ELSE IF today % 2 ^ i = 0 THEN Chr(i + 65)
       ELSE HanoiLoopAboveZero(today, i - 1)

\* while i >= 0: if today % 2 ** i == 0: hanoisuf = chr(i+65); break
RECURSIVE HanoiLoop(_, _)
HanoiLoop(today, i) ==
  IF i < 0 THEN ""
  ELSE IF today % 2 ^ i = 0 THEN Chr(i + 65)
       ELSE HanoiLoop(today, i - 1)

\* a rotation whose loop starts one below HANOI
HanoiSufBelowTop(hanoi, hanoiday, date) ==
  IF hanoi > 0 THEN HanoiLoop(date - hanoiday + 1, hanoi - 1) ELSE ""

\* hanoisuf of a set on the date of starttime (dates are day numbers)
HanoiSuf(hanoi, hanoiday, date) ==
  IF hanoi > 0 THEN HanoiLoop(date - hanoiday + 1, hanoi) ELSE ""

\* the loop of Snapshotter.calcHanoi
RECURSIVE CalcHanoiLoop(_, _)
CalcHanoiLoop(day, i) ==
  IF i < 0 THEN "None"
  ELSE IF day % 2 ^ i = 0 THEN Chr(i + 65)
       ELSE CalcHanoiLoop(day, i - 1)

\* Snapshotter.calcHanoi, nsets being its parameter `sets`: ( day, suf ),
\* or the exception it raises
calcHanoi(nsets, firstDay, today) ==
  IF nsets < 1 THEN <<"ValueError">>
  ELSE LET day == today - firstDay + 1
       IN IF day < 1 \/ CalcHanoiLoop(day, nsets) = "None"
          THEN <<"AssertionError">>
          ELSE <<day, CalcHanoiLoop(day, nsets)>>

\* what a text of the configuration is made of: the two template tokens
\* and other text
Tokens == {"{setname}", "{dirname}", "x"}

\* the values of an option, of SRC and of DST
Texts == UNION {[1..n -> Tokens] : n \in 0..MaxTok}

\* str.lower()
Lower(name) ==
  CASE name \in {"Etc", "ETC"} -> "etc"
    [] name = "Test" -> "test"
    [] OTHER -> name

\* `if onlySets:` the sections whose name, in lower case, is the lower case
\* of one of onlySets
OnlySets(only, names) ==
  IF only = <<>> THEN names
  ELSE SelectSeq(names, LAMBDA k :
         Lower(SetNames[k]) \in {Lower(only[j]) : j \in 1..Len(only)})

\* pattern.sub(repl, text): every occurrence of the pattern is replaced
ReSub(pattern, repl, text) ==
  [k \in 1..Len(text) |-> IF text[k] = pattern THEN repl ELSE text[k]]

\* cmdr of the entry d of BACKUPLIST, without hard links: the program, the
\* options, the source and the destination
Cmdr(s, hanoisuf, d) ==
  <<<<s.program>>>>
    \o [k \in 1..Len(s.opts) |-> ReSub("{setname}", Lower(s.name), s.opts[k])]
    \o <<ReSub("{dirname}", d, s.src)>>
    \o <<ReSub("{dirname}", d,
               s.dst \o (IF hanoisuf # "" THEN <<s.sep, hanoisuf>>
                         ELSE <<>>))>>

\* date of the day of t, in days since date(1970,1,1), which is day 1
DateOf(t) == 1 + (t \div (DaySecs * TicksPerSec))

\* the characters of a suffix: none for the empty suffix
Str(hanoisuf) == IF hanoisuf = "" THEN <<>> ELSE <<hanoisuf>>

\* text[:n]
Take(text, n) == SubSeq(text, 1, IF n < Len(text) THEN n ELSE Len(text))

\* the index of the last "/" of a path, 0 without one
LastSlash(text) ==
  LET at == {k \in 1..Len(text) : text[k] = "/"}
  IN IF at = {} THEN 0 ELSE CHOOSE k \in at : \A j \in at : j <= k

\* os.path.split of a path that does not end with "/": (path, base)
Split(text) ==
  LET k == LastSlash(text)
  IN <<Take(text, IF k > 1 THEN k - 1 ELSE k),
       SubSeq(text, k + 1, Len(text))>>

\* sorted(psets, key=lambda pset: pset[1], reverse=True): newest first, the
\* order of the listing among equal times
RECURSIVE SortedByAge(_)
SortedByAge(psets) ==
  IF psets = <<>> THEN <<>>
  ELSE LET newest == {k \in 1..Len(psets) :
                        \A j \in 1..Len(psets) :
                          psets[j].mtime <= psets[k].mtime}
           k == CHOOSE a \in newest : \A b \in newest : a <= b
       IN <<psets[k]>>
            \o SortedByAge(SubSeq(psets, 1, k - 1)
                             \o SubSeq(psets, k + 1, Len(psets)))

\* the local listing: the directories named base, or base followed by more
SeekLocal(s, dirs) ==
  LET base == Split(s.dst)[2]
  IN SortedByAge(SelectSeq(dirs, LAMBDA d :
       /\ d.name = base \/ Take(d.name, Len(base)) \o <<s.sep>>
                            = base \o <<s.sep>>
       /\ d.isdir))

\* a search that links against every previous backup it found
PlinkOfAll(s, hanoisuf, dirs) ==
  IF s.remdst THEN [raised |-> TRUE, plink |-> <<>>]
  ELSE LET psets == SeekLocal(s, dirs)
       IN [raised |-> FALSE,
           plink |-> [k \in 1..Len(psets) |->
                        Split(s.dst)[1] \o <<"/">> \o psets[k].name]]

\* plink of a set with HARDLINK and rsync: the remote listing splits bytes
\* by a str, which raises TypeError; the local one leaves out the directory
\* named base + sep + hanoisuf
PlinkOf(s, hanoisuf, dirs) ==
  IF s.remdst THEN [raised |-> TRUE, plink |-> <<>>]
  ELSE LET path == Split(s.dst)[1]
           base == Split(s.dst)[2]
           psets == SelectSeq(SeekLocal(s, dirs), LAMBDA p :
                      p.name # base \o <<s.sep>> \o Str(hanoisuf))
       IN [raised |-> FALSE,
           plink |-> [k \in 1..Len(psets) |->
                        path \o <<"/">> \o psets[k].name]]

\* for pl in plink: cmdr.append("--link-dest=" + pl)
LinkDest(plink) == [k \in 1..Len(plink) |-> <<"--link-dest=">> \o plink[k]]

\* what the path dst is: nothing, a directory, a file, or a symlink to the
\* generation `to`, which exists (live) or not
NoDst == [kind |-> "absent", to |-> "", live |-> FALSE]

DstStates ==
  {NoDst} \cup [kind : {"dir", "file"}, to : {""}, live : {FALSE}]
          \cup [kind : {"link"}, to : {"A", "B"}, live : BOOLEAN]

\* os.path.exists(s.dst), which follows a symlink
Exists(d) == d.kind \in {"dir", "file"} \/ (d.kind = "link" /\ d.live)

\* a rotation that does not look at safe
PhaseRUnsafe(s, hanoisuf, safe, d) ==
  IF hanoisuf # "" /\ ~s.remdst
  THEN LET unl == Exists(d) /\ d.kind = "link"
           d1 == IF unl THEN NoDst ELSE d
           e1 == IF unl THEN << <<"unlink">> >> ELSE <<>>
       IN IF ~Exists(d1)
          THEN IF d1.kind = "absent"
               THEN [dst |-> [kind |-> "link", to |-> hanoisuf,
                              live |-> TRUE],
                     events |-> Append(e1, <<"symlink">>),
                     raised |-> FALSE]
               ELSE [dst |-> d1, events |-> e1, raised |-> TRUE]
          ELSE [dst |-> d1, events |-> e1, raised |-> FALSE]
  ELSE [dst |-> d, events |-> <<>>, raised |-> FALSE]

\* Create backup symlink, is using hanoi and not remote: the path dst
\* afterwards, what was done, and whether os.symlink raised FileExistsError
\* (dst is a symlink whose target is gone: exists is false, so it is not
\* unlinked and the name is taken)
PhaseR(s, hanoisuf, safe, d) ==
  IF hanoisuf # "" /\ ~s.remdst
  THEN LET unl == Exists(d) /\ d.kind = "link" /\ ~safe
           d1 == IF unl THEN NoDst ELSE d
           e1 == IF unl THEN << <<"unlink">> >> ELSE <<>>
       IN IF ~Exists(d1) /\ ~safe
          THEN IF d1.kind = "absent"
               THEN [dst |-> [kind |-> "link", to |-> hanoisuf,
                              live |-> TRUE],
                     events |-> Append(e1, <<"symlink">>),
                     raised |-> FALSE]
               ELSE [dst |-> d1, events |-> e1, raised |-> TRUE]
          ELSE [dst |-> d1, events |-> e1, raised |-> FALSE]
  ELSE [dst |-> d, events |-> <<>>, raised |-> FALSE]

(* ------------------------------ Init ---------------------------------- *)

InitRun ==
  /\ now = TicksPerSec
  /\ pidfile = [exists |-> FALSE, pid |-> 0]
  /\ stamped = [s \in SetIds |-> <<>>]
  /\ pc = [i \in Inv |-> "idle"]
  /\ args = [i \in Inv |-> NoFlags]
  /\ starttime = [i \in Inv |-> 0]
  /\ sets = [i \in Inv |-> <<>>]
  /\ cur = [i \in Inv |-> 0]
  /\ hup = [i \in Inv |-> {}]
  /\ setsuccess = [i \in Inv |-> TRUE]
  /\ xi = [i \in Inv |-> 0]
  /\ ret = [i \in Inv |-> <<>>]
  /\ pk = [i \in Inv |-> 0]
  /\ failed = [i \in Inv |-> FALSE]
  /\ trace = [i \in Inv |-> <<>>]

\* before the first run: no lock file, no cache file
InitVars == InitRun /\ cache = [s \in SetIds |-> <<>>]

(* ----------------------------- actions -------------------------------- *)

\* the process of invocation i is gone: its locals with it
End(i, how, status) ==
  /\ pc' = [pc EXCEPT ![i] = how]
  /\ ret' = [ret EXCEPT ![i] = status]
  /\ args' = [args EXCEPT ![i] = NoFlags]
  /\ starttime' = [starttime EXCEPT ![i] = 0]
  /\ sets' = [sets EXCEPT ![i] = <<>>]
  /\ cur' = [cur EXCEPT ![i] = 0]
  /\ hup' = [hup EXCEPT ![i] = {}]
  /\ setsuccess' = [setsuccess EXCEPT ![i] = TRUE]
  /\ xi' = [xi EXCEPT ![i] = 0]
  /\ pk' = [pk EXCEPT ![i] = 0]
  /\ failed' = [failed EXCEPT ![i] = FALSE]
  /\ trace' = [trace EXCEPT ![i] = <<>>]

\* Jabs.run is entered by process i with arguments among flags and a
\* configuration file that reads as one of outcomes: starttime, the
\* configuration (return 1, or an exception nobody catches), the sets that
\* were asked for, sorted by priority
Begin(i, flags, outcomes) ==
  \E t \in now..MaxTime, f \in flags, o \in outcomes :
    /\ now' = t
    /\ IF o = "ok"
       THEN /\ starttime' = [starttime EXCEPT ![i] = t]
            /\ args' = [args EXCEPT ![i] = f]
            /\ sets' = [sets EXCEPT ![i] =
                          SortedByPri(OnlySets(f.only,
                                        [k \in 1..Len(cfg) |-> k]), cfg)]
            /\ pc' = [pc EXCEPT ![i] = "checkpid"]
            /\ ret' = [ret EXCEPT ![i] = <<>>]
            /\ UNCHANGED <<cur, hup, setsuccess, xi, pk, failed, trace>>
       ELSE IF o \in {"IOError", "NoGlobal"}
       THEN End(i, "exited", <<1>>)
       ELSE End(i, "crashed", <<1>>)
    /\ UNCHANGED <<cfg, pidfile, cache, stamped, call>>

\* cron starts invocation i on a configuration file that is in order
Start(i) ==
  /\ pc[i] = "idle"
  /\ \A j \in Inv : j < i => pc[j] # "idle"
  /\ Begin(i, Flags, {"ok"})

\* is another instance running: isfile, read, os.kill(pid, 0)
CheckPid(i) ==
  /\ pc[i] = "checkpid"
  /\ IF pidfile.exists /\ Alive(pidfile.pid)
     THEN /\ End(i, "exited", IF args[i].batch THEN <<0>> ELSE <<12>>)
          /\ UNCHANGED <<cfg, now, pidfile, cache, stamped, call>>
     ELSE /\ pc' = [pc EXCEPT ![i] = "openpid"]
          /\ args' = [args EXCEPT ![i].batch = FALSE]
          /\ UNCHANGED <<cfg, now, pidfile, cache, stamped, starttime,
                         sets, cur, hup, setsuccess, xi, ret, pk, failed,
                         trace, call>>

\* PIDFILE = open(pidfile, "w"): creates or truncates the file, or fails
OpenPid(i) ==
  /\ pc[i] = "openpid"
  /\ \/ /\ pidfile' = [exists |-> TRUE, pid |-> 0]
        /\ pc' = [pc EXCEPT ![i] = "writepid"]
        /\ UNCHANGED <<cfg, now, cache, stamped, args, starttime, sets, cur,
                       hup, setsuccess, xi, ret, pk, failed, trace, call>>
     \/ /\ End(i, "exited", <<15>>)
        /\ UNCHANGED <<cfg, now, pidfile, cache, stamped, call>>

\* PIDFILE.write(str(os.getpid())); PIDFILE.flush()
WritePid(i) ==
  /\ pc[i] = "writepid"
  /\ pidfile' = [exists |-> TRUE, pid |-> i]
  /\ pc' = [pc EXCEPT ![i] = "f_disabled"]
  /\ UNCHANGED <<cfg, now, cache, stamped, args, starttime, sets, cur, hup,
                 setsuccess, xi, ret, pk, failed, trace, call>>

\* `continue`, or the end of the loop body: the next set, or lines 958-962
NextSet(i) ==
  IF cur[i] < Len(sets[i])
  THEN /\ cur' = [cur EXCEPT ![i] = cur[i] + 1]
       /\ pc' = [pc EXCEPT ![i] = "set_begin"]
       /\ setsuccess' = [setsuccess EXCEPT ![i] = TRUE]
       /\ xi' = [xi EXCEPT ![i] = 0]
       /\ pk' = [pk EXCEPT ![i] = 0]
       /\ failed' = [failed EXCEPT ![i] = FALSE]
       /\ trace' = [trace EXCEPT ![i] = <<>>]
       /\ UNCHANGED <<args, starttime, sets, hup, ret>>
  ELSE End(i, "exited", <<0>>)

\* Remove disabled sets
FilterDisabled(i) ==
  /\ pc[i] = "f_disabled"
  /\ sets' = [sets EXCEPT ![i] =
                KeepOnly(sets[i], {s \in Range(sets[i]) : ~cfg[s].disabled})]
  /\ pc' = [pc EXCEPT ![i] = "f_runtime"]
  /\ UNCHANGED <<cfg, now, pidfile, cache, stamped, args, starttime, cur, hup,
                 setsuccess, xi, ret, pk, failed, trace, call>>

\* Check for sets to run based on current time
FilterRuntime(i) ==
  /\ pc[i] = "f_runtime"
  /\ sets' = [sets EXCEPT ![i] =
                IF args[i].force THEN sets[i]
                ELSE KeepOnly(sets[i],
                       {s \in Range(sets[i]) :
                          ~OutOfRuntime(cfg[s].runtime, starttime[i])})]
  /\ pc' = [pc EXCEPT ![i] = "f_interval"]
  /\ UNCHANGED <<cfg, now, pidfile, cache, stamped, args, starttime, cur, hup,
                 setsuccess, xi, ret, pk, failed, trace, call>>

\* Check for sets to run based on interval: only a set with an interval
\* greater than zero reaches newsets.append(s)
FilterInterval(i) ==
  /\ pc[i] = "f_interval"
  /\ sets' = [sets EXCEPT ![i] =
                IF args[i].force THEN sets[i]
                ELSE KeepOnly(sets[i],
                       {s \in Range(sets[i]) :
                          /\ cfg[s].interval > 0
                          /\ ~IntervalNotReached(LastDone(cache[s]),
                                                 cfg[s].interval,
                                                 starttime[i])})]
  /\ pc' = [pc EXCEPT ![i] = "f_ping"]
  /\ UNCHANGED <<cfg, now, pidfile, cache, stamped, args, starttime, cur, hup,
                 setsuccess, xi, ret, pk, failed, trace, call>>

\* Ping hosts if required, then `if not len(sets): return 0`
FilterPing(i) ==
  /\ pc[i] = "f_ping"
  /\ \E up \in SUBSET {s \in Range(sets[i]) : Pinged(cfg[s])} :
       LET q == KeepOnly(sets[i],
                  {s \in Range(sets[i]) : Pinged(cfg[s]) => s \in up})
       IN IF q = <<>>
          THEN /\ End(i, "exited", <<0>>)
               /\ UNCHANGED <<cfg, now, pidfile, cache, stamped, call>>
          ELSE /\ sets' = [sets EXCEPT ![i] = q]
               /\ hup' = [hup EXCEPT ![i] = up]
               /\ cur' = [cur EXCEPT ![i] = 1]
               /\ pc' = [pc EXCEPT ![i] = "set_begin"]
               /\ UNCHANGED <<cfg, now, pidfile, cache, stamped, args,
                              starttime, setsuccess, xi, ret, pk, failed,
                              trace, call>>

\* top of the loop body: sstarttime, mount, datefile, hanoi suffix and the
\* search for previous backups, which raises when the listing fails
SetBegin(i) ==
  /\ pc[i] = "set_begin"
  /\ \E t \in now..MaxTime : now' = t
  /\ \/ /\ \E ismount \in BOOLEAN :
             /\ ismount => cfg[CurSet(i)].mount
             /\ trace' = [trace EXCEPT ![i] =
                            IF cfg[CurSet(i)].mount /\ ~ismount
                            THEN Append(@, <<"mount">>) ELSE @]
        /\ setsuccess' = [setsuccess EXCEPT ![i] = TRUE]
        /\ xi' = [xi EXCEPT ![i] = 1]
        /\ pk' = [pk EXCEPT ![i] = 1]
        /\ pc' = [pc EXCEPT ![i] = "pre"]
        /\ UNCHANGED <<cfg, pidfile, cache, stamped, args, starttime, sets,
                       cur, hup, ret, failed, call>>
     \/ /\ cfg[CurSet(i)].hardlink
        /\ End(i, "crashed", <<1>>)
        /\ UNCHANGED <<cfg, pidfile, cache, stamped, call>>

\* a loop `for p in s.pre` that goes on after a failure whatever
\* SKIPONPREERROR says
PreNoBreak(s, r) == FALSE

\* `if s.skiponpreerror: ... break` after a pre-command that returned r # 0
PreBreaks(s, r) == s.skiponpreerror

\* Pre-backup tasks: one pass of the loop `for p in s.pre`, or its end
Pre(i) ==
  /\ pc[i] = "pre"
  /\ IF pk[i] > cfg[CurSet(i)].pre
     THEN /\ pc' = [pc EXCEPT ![i] = "checkdst"]
          /\ pk' = [pk EXCEPT ![i] = 0]
          /\ UNCHANGED <<setsuccess, failed, trace>>
     ELSE /\ trace' = [trace EXCEPT ![i] = Append(@, <<"pre", pk[i]>>)]
          /\ \E r \in ExitCodes :
               IF r = 0
               THEN /\ pk' = [pk EXCEPT ![i] = pk[i] + 1]
                    /\ UNCHANGED <<pc, setsuccess, failed>>
               ELSE /\ setsuccess' = [setsuccess EXCEPT ![i] = FALSE]
                    /\ failed' = [failed EXCEPT ![i] = TRUE]
                    /\ IF PreBreaks(cfg[CurSet(i)], r)
                       THEN /\ pc' = [pc EXCEPT ![i] = "pre_break"]
                            /\ UNCHANGED pk
                       ELSE /\ pk' = [pk EXCEPT ![i] = pk[i] + 1]
                            /\ UNCHANGED pc
  /\ UNCHANGED <<cfg, now, pidfile, cache, stamped, args, starttime, sets,
                 cur, hup, xi, ret, call>>

\* the loop was left by `break`: `if not goon: continue`
PreBreak(i) ==
  /\ pc[i] = "pre_break"
  /\ NextSet(i)
  /\ UNCHANGED <<cfg, now, pidfile, cache, stamped, call>>

\* Checks whether the given backup destination exists
CheckDst(i) ==
  /\ pc[i] = "checkdst"
  /\ \E found \in BOOLEAN :
       /\ ~found => cfg[CurSet(i)].checkdst
       /\ pc' = [pc EXCEPT ![i] = IF found THEN "xfer" ELSE "dst_skip"]
  /\ UNCHANGED <<cfg, now, pidfile, cache, stamped, args, starttime, sets,
                 cur, hup, setsuccess, xi, ret, pk, failed, trace, call>>

\* a destination check that gives up the whole run: `return 0`
DstSkipReturns(i) ==
  /\ pc[i] = "dst_skip"
  /\ End(i, "exited", <<0>>)
  /\ UNCHANGED <<cfg, now, pidfile, cache, stamped, call>>

\* the destination is missing, or os.path.exists raised: a warning, then
\* `continue`
DstSkip(i) ==
  /\ pc[i] = "dst_skip"
  /\ NextSet(i)
  /\ UNCHANGED <<cfg, now, pidfile, cache, stamped, call>>

\* a loop that is left after its first entry
NextDirOnce(i) ==
  /\ xi' = [xi EXCEPT ![i] = xi[i] + 1]
  /\ pc' = [pc EXCEPT ![i] = "phase_c"]

\* the loop `for d in s.backuplist` is over, or goes to its next entry
NextDir(i) ==
  /\ xi' = [xi EXCEPT ![i] = xi[i] + 1]
  /\ pc' = [pc EXCEPT ![i] =
              IF xi[i] < cfg[CurSet(i)].ndirs THEN "xfer" ELSE "phase_c"]

\* the command line of one directory is built and, unless safe, the log
\* file is opened (its name is None without MAILTO) and the program spawned
XferStart(i) ==
  /\ pc[i] = "xfer"
  /\ IF cfg[CurSet(i)].program \notin {"rsync", "rclone"}
     THEN End(i, "crashed", <<1>>)
     ELSE IF args[i].safe
     THEN /\ NextDir(i)
          /\ trace' = [trace EXCEPT ![i] = Append(@, <<"cmdline", xi[i]>>)]
          /\ UNCHANGED <<args, starttime, sets, cur, hup, setsuccess, ret,
                         pk, failed>>
     ELSE IF ~cfg[CurSet(i)].mailto
     THEN End(i, "crashed", <<1>>)
     ELSE \/ /\ pc' = [pc EXCEPT ![i] = "xfer_wait"]
             /\ trace' = [trace EXCEPT ![i] =
                            @ \o <<<<"cmdline", xi[i]>>, <<"spawn", xi[i]>>>>]
             /\ UNCHANGED <<args, starttime, sets, cur, hup, setsuccess, xi,
                            ret, pk, failed>>
          \/ End(i, "exited", <<1>>)
  /\ UNCHANGED <<cfg, now, pidfile, cache, stamped, call>>

\* p.wait(), the joins, and the analysis of the exit status and of stderr
XferWait(i) ==
  /\ pc[i] = "xfer_wait"
  /\ \E r \in ExitCodes, output \in RunOutputs :
       /\ setsuccess' = [setsuccess EXCEPT ![i] = Analyze(@, r, output)]
       /\ failed' = [failed EXCEPT ![i] = @ \/ HardFailure(r, output)]
  /\ NextDir(i)
  /\ UNCHANGED <<cfg, now, pidfile, cache, stamped, args, starttime, sets,
                 cur, hup, ret, pk, trace, call>>

\* Delete dirs from deletelist (the one entry is removed when it is a
\* directory of the destination), then `Save last backup execution time`
PhaseC(i) ==
  /\ pc[i] = "phase_c"
  /\ IF cfg[CurSet(i)].interval > 0 /\ ~args[i].safe
     THEN /\ cache' = [cache EXCEPT ![CurSet(i)] =
                         <<CacheStamp(starttime[i], now)>>]
          /\ stamped' = [stamped EXCEPT ![CurSet(i)] = <<starttime[i]>>]
     ELSE UNCHANGED <<cache, stamped>>
  /\ \E isdir \in BOOLEAN :
       /\ isdir => cfg[CurSet(i)].ndel > 0
       /\ trace' = [trace EXCEPT ![i] =
                      @ \o (IF isdir THEN << <<"rmtree">> >> ELSE <<>>)
                        \o (IF cfg[CurSet(i)].interval > 0 /\ ~args[i].safe
                            THEN << <<"cache">> >> ELSE <<>>)]
  /\ pc' = [pc EXCEPT ![i] = "set_end"]
  /\ UNCHANGED <<cfg, now, pidfile, args, starttime, sets, cur, hup,
                 setsuccess, xi, ret, pk, failed, call>>

\* hanoisuf of the set invocation i is at
hanoisuf(i) ==
  HanoiSuf(cfg[CurSet(i)].hanoi, cfg[CurSet(i)].hanoiday,
           DateOf(starttime[i]))

\* the backup symlink and `Set ... completed. Took:`
SetEnd(i) ==
  /\ pc[i] = "set_end"
  /\ \E d \in DstStates :
       LET r == PhaseR(cfg[CurSet(i)], hanoisuf(i), args[i].safe, d)
       IN IF r.raised
          THEN End(i, "crashed", <<1>>)
          ELSE /\ trace' = [trace EXCEPT ![i] = @ \o r.events]
               /\ pc' = [pc EXCEPT ![i] = "phase_u"]
               /\ UNCHANGED <<args, starttime, sets, cur, hup, setsuccess,
                              xi, ret, pk, failed>>
  /\ UNCHANGED <<cfg, now, pidfile, cache, stamped, call>>

\* Umount: `umount <path>` when UMOUNT is set and the path is a mount point
Umount(i) ==
  /\ pc[i] = "phase_u"
  /\ \E ismount \in BOOLEAN :
       /\ ismount => cfg[CurSet(i)].umount
       /\ trace' = [trace EXCEPT ![i] =
                      IF cfg[CurSet(i)].umount /\ ismount
                      THEN Append(@, <<"umount">>) ELSE @]
  /\ pc' = [pc EXCEPT ![i] = "phase_n"]
  /\ UNCHANGED <<cfg, now, pidfile, cache, stamped, args, starttime, sets,
                 cur, hup, setsuccess, xi, ret, pk, failed, call>>

\* Send email (smtplib raises on a transport error)
Mail(i) ==
  /\ pc[i] = "phase_n"
  /\ IF cfg[CurSet(i)].mailto /\ ~args[i].safe
     THEN \/ /\ trace' = [trace EXCEPT ![i] =
                            Append(@, <<"mail",
                                        Subject(CurSet(i), setsuccess[i])>>)]
             /\ pc' = [pc EXCEPT ![i] = "phase_k"]
             /\ UNCHANGED <<args, starttime, sets, cur, hup, setsuccess, xi,
                            ret, pk, failed>>
          \/ End(i, "crashed", <<1>>)
     ELSE /\ pc' = [pc EXCEPT ![i] = "phase_k"]
          /\ UNCHANGED <<args, starttime, sets, cur, hup, setsuccess, xi,
                         ret, pk, failed, trace>>
  /\ UNCHANGED <<cfg, now, pidfile, cache, stamped, call>>

\* Delete temporary logs and the temporary directory: the loop body is over
Cleanup(i) ==
  /\ pc[i] = "phase_k"
  /\ NextSet(i)
  /\ UNCHANGED <<cfg, now, pidfile, cache, stamped, call>>

\* the process is killed: no handler runs, nothing is cleaned up
Kill(i) ==
  /\ pc[i] \in Running
  /\ End(i, "killed", <<>>)
  /\ UNCHANGED <<cfg, now, pidfile, cache, stamped, call>>

\* the steps of a started invocation
Step(i) ==
  \/ CheckPid(i)
  \/ OpenPid(i)
  \/ WritePid(i)
  \/ FilterDisabled(i)
  \/ FilterRuntime(i)
  \/ FilterInterval(i)
  \/ FilterPing(i)
  \/ SetBegin(i)
  \/ Pre(i)
  \/ PreBreak(i)
  \/ CheckDst(i)
  \/ DstSkip(i)
  \/ XferStart(i)
  \/ XferWait(i)
  \/ PhaseC(i)
  \/ SetEnd(i)
  \/ Umount(i)
  \/ Mail(i)
  \/ Cleanup(i)
  \/ Kill(i)

\* cron starts an invocation once the previous one is gone
StartAlone(i) ==
  /\ \A j \in Inv : pc[j] \notin Running
  /\ Start(i)

\* no function is evaluated alone while the invocations run
NoCall == [fn |-> "none"]

Init == cfg \in RaceConfigs /\ InitVars /\ call = NoCall

Next == \E i \in Inv : Start(i) \/ Step(i)

\* invocations that may overlap
Spec == Init /\ [][Next]_vars

InitSeq == cfg \in Configs /\ InitVars /\ call = NoCall

NextSeq == \E i \in Inv : StartAlone(i) \/ Step(i)

\* invocations one after the other, on every configuration file
SpecSeq == InitSeq /\ [][NextSeq]_vars

\* the configuration files of the runs by hand
HandConfigs ==
  { <<MailedSet, TimedSet>>, <<WindowSet, TarSet, DefaultSet>>,
    <<DefaultSet, DisabledSet>> }

\* Jabs.run is called by hand, from the command line or as in tests.py
StartByHand(i) ==
  /\ pc[i] = "idle"
  /\ Begin(i, NamedFlags, CfgOutcomes)

\* the process in which Jabs.run has returned calls it again
Again(i) ==
  /\ pc[i] = "exited"
  /\ Begin(i, NamedFlags, CfgOutcomes)

\* the cache directory is new, or its files are damaged
InitOne ==
  /\ cfg \in HandConfigs
  /\ InitRun
  /\ cache \in {[s \in SetIds |-> cf] : cf \in {<<>>, CorruptCache}}
  /\ call = NoCall

NextOne == StartByHand(1) \/ Again(1) \/ Step(1)

\* one process that calls Jabs.run by hand, time after time
SpecOne == InitOne /\ [][NextOne]_vars

(* -------------------- functions evaluated alone ---------------------- *)

\* the state of the invocations, which a function evaluated alone leaves
run == <<cfg, now, pidfile, cache, stamped, pc, args, starttime, sets, cur,
         hup, setsuccess, xi, ret, pk, failed, trace>>

\* the end of one transfer: setsuccess so far, exit status, stderr
AnalyzeCalls ==
  [fn : {"analyze"}, setsuccess : BOOLEAN, ret : ExitCodes,
   output : Outputs, out : {<<>>}]

\* HANOI, HANOIDAY and the date of a run
HanoiCalls ==
  { [fn |-> f, hanoi |-> n, hanoiday |-> h, today |-> h + d - 1,
     out |-> <<>>] :
      f \in {"hanoi", "calcHanoi"}, n \in 0..MaxHanoi, h \in {1, 4},
      d \in 1..MaxDay }

\* a set named Etc with at most one option, and one entry of BACKUPLIST
CmdrCalls ==
  { [fn |-> "cmdr",
     s |-> [name |-> "Etc", program |-> "rsync", opts |-> o, src |-> a,
            dst |-> b, sep |-> "."],
     hanoisuf |-> h, d |-> "dir", out |-> <<>>] :
      o \in {<<>>} \cup [1..1 -> Texts], a \in Texts, b \in Texts,
      h \in {"", "A"} }

\* the names found in the parent directory of DST = p/b
DirNames ==
  { <<"b">>, <<"b", ".">>, <<"b", ".", "A">>, <<"b", ".", "B">>,
    <<"b", "x">>, <<"c">> }

\* an entry of a directory: its name, what lstat says, st_mtime
DirEntries == [name : DirNames, isdir : BOOLEAN, mtime : 1..2]

\* os.listdir(path): entries with different names, in any order
Listings ==
  { l \in UNION {[1..n -> DirEntries] : n \in 0..MaxDirs} :
      \A j, k \in 1..Len(l) : l[j].name = l[k].name => j = k }

\* the search for previous backups of a set with HARDLINK and rsync
PlinkCalls ==
  { [fn |-> "plink",
     s |-> [dst |-> <<"p", "/", "b">>, sep |-> ".", remdst |-> r],
     hanoisuf |-> h, dirs |-> l, out |-> <<>>] :
      r \in BOOLEAN, h \in {"", "A", "B"}, l \in Listings }

\* the rotation of the symlink of a set, whatever the path dst is
PhaseRCalls ==
  { [fn |-> "phaseR", s |-> [remdst |-> r], hanoisuf |-> h, safe |-> f,
     d |-> d, out |-> <<>>] :
      r \in BOOLEAN, h \in {"", "A", "B"}, f \in BOOLEAN,
      d \in DstStates }

\* lines 802-819 on the result of one transfer
CallAnalyze ==
  /\ call.fn = "analyze" /\ call.out = <<>>
  /\ call' = [call EXCEPT
                !.out = <<Analyze(call.setsuccess, call.ret, call.output)>>]
  /\ UNCHANGED run

\* lines 648-660 of jabs.py for one set on one date
CallHanoi ==
  /\ call.fn = "hanoi" /\ call.out = <<>>
  /\ call' = [call EXCEPT
                !.out = <<HanoiSuf(call.hanoi, call.hanoiday, call.today)>>]
  /\ UNCHANGED run

\* Snapshotter.calcHanoi(sets, firstDay, today)
CallCalcHanoi ==
  /\ call.fn = "calcHanoi" /\ call.out = <<>>
  /\ call' = [call EXCEPT
                !.out = <<calcHanoi(call.hanoi, call.hanoiday, call.today)>>]
  /\ UNCHANGED run

\* lines 751-766: the command line of one entry of BACKUPLIST
CallCmdr ==
  /\ call.fn = "cmdr" /\ call.out = <<>>
  /\ call' = [call EXCEPT !.out = <<Cmdr(call.s, call.hanoisuf, call.d)>>]
  /\ UNCHANGED run

\* lines 662-708 and 760-761: the --link-dest arguments of a set
CallPlink ==
  /\ call.fn = "plink" /\ call.out = <<>>
  /\ LET r == PlinkOf(call.s, call.hanoisuf, call.dirs)
     IN call' = [call EXCEPT
                   !.out = <<[raised |-> r.raised,
                              linkdest |-> LinkDest(r.plink)]>>]
  /\ UNCHANGED run

\* lines 852-867 on one state of the path dst
CallPhaseR ==
  /\ call.fn = "phaseR" /\ call.out = <<>>
  /\ call' = [call EXCEPT
                !.out = <<PhaseR(call.s, call.hanoisuf, call.safe, call.d)>>]
  /\ UNCHANGED run

InitCalls ==
  /\ cfg = <<DefaultSet>>
  /\ InitVars
  /\ call \in AnalyzeCalls \cup HanoiCalls \cup CmdrCalls \cup PlinkCalls
               \cup PhaseRCalls

NextCalls ==
  \/ CallAnalyze
  \/ CallHanoi
  \/ CallCalcHanoi
  \/ CallCmdr
  \/ CallPlink
  \/ CallPhaseR

\* one function of jabs evaluated once on every argument
SpecCalls == InitCalls /\ [][NextCalls]_vars

(* ------------------ the streams of one transfer ----------------------- *)

\* the two pipes of the child, and the thread that reads each
Streams == {"stdout", "stderr"}

\* one transfer from Popen on: line k of the child goes to script[k]; the
\* child has written `sent` lines; the pipes; the threads spoct and spect
\* (new, run, done); what logh and spect.output hold; the position of
\* Jabs.run; the log as closed and the stderr as classified; whether the
\* child ever had to wait for room in a pipe (history)
PipeCalls ==
  { [fn |-> "communicate", script |-> sc, sent |-> 0, child |-> "running",
     pipe |-> [stdout |-> <<>>, stderr |-> <<>>],
     thr |-> [stdout |-> "new", stderr |-> "new"],
     got |-> [stdout |-> <<>>, stderr |-> <<>>],
     runner |-> "start_stdout", closed |-> <<>>, classified |-> <<>>,
     stalled |-> FALSE] :
      sc \in UNION {[1..n -> Streams] : n \in 0..MaxLines} }

\* the child writes its next line, which blocks while the pipe is full
ChildWrite ==
  /\ call.child = "running"
  /\ call.sent < Len(call.script)
  /\ LET th == call.script[call.sent + 1]
     IN /\ Len(call.pipe[th]) < PipeCap
        /\ call' = [call EXCEPT !.pipe[th] = Append(@, call.sent + 1),
                                !.sent = @ + 1]
  /\ UNCHANGED run

\* the child exits after its last line: the write ends of its pipes close
ChildExit ==
  /\ call.child = "running"
  /\ call.sent = Len(call.script)
  /\ call' = [call EXCEPT !.child = "exited"]
  /\ UNCHANGED run

\* spoct.start(), then spect.start()
StartThread(th) ==
  /\ call.runner = "start_" \o th
  /\ call' = [call EXCEPT
                !.thr[th] = "run",
                !.runner = IF th = "stdout" THEN "start_stderr" ELSE "wait"]
  /\ UNCHANGED run

\* a reader of stdout only: nothing ever reads the other pipe
ReadLineStdout(th) ==
  /\ th = "stdout"
  /\ call.thr[th] = "run"
  /\ call.pipe[th] # <<>>
  /\ call' = [call EXCEPT !.pipe[th] = Tail(@),
                          !.got[th] = Append(@, Head(call.pipe[th]))]
  /\ UNCHANGED run

\* text = self._stream.readline(); self._processText(text): a line goes
\* from the pipe to the log file, or to spect.output
ReadLine(th) ==
  /\ call.thr[th] = "run"
  /\ call.pipe[th] # <<>>
  /\ call' = [call EXCEPT
                !.pipe[th] = Tail(@),
                !.got[th] = Append(@, Head(call.pipe[th])),
                !.stalled = @ \/ (/\ Len(call.pipe[th]) = PipeCap
                                  /\ call.sent < Len(call.script)
                                  /\ call.script[call.sent + 1] = th)]
  /\ UNCHANGED run

\* readline() returns b'' at the end of the stream: break
ReadEof(th) ==
  /\ call.thr[th] = "run"
  /\ call.pipe[th] = <<>>
  /\ call.child = "exited"
  /\ call' = [call EXCEPT !.thr[th] = "done"]
  /\ UNCHANGED run

\* ret = p.wait()
Wait ==
  /\ call.runner = "wait"
  /\ call.child = "exited"
  /\ call' = [call EXCEPT !.runner = "join_stdout"]
  /\ UNCHANGED run

\* a join that returns while the thread still runs
JoinNoWait(th) ==
  /\ call.runner = "join_" \o th
  /\ call' = [call EXCEPT
                !.runner = IF th = "stdout" THEN "join_stderr" ELSE "close"]
  /\ UNCHANGED run

\* spoct.join(), then spect.join()
Join(th) ==
  /\ call.runner = "join_" \o th
  /\ call.thr[th] = "done"
  /\ call' = [call EXCEPT
                !.runner = IF th = "stdout" THEN "join_stderr" ELSE "close"]
  /\ UNCHANGED run

\* TARLOGFILE.close(), then the analysis of spect.output
Close ==
  /\ call.runner = "close"
  /\ call' = [call EXCEPT !.runner = "done",
                          !.closed = call.got.stdout,
                          !.classified = call.got.stderr]
  /\ UNCHANGED run

InitPipe == cfg = <<DefaultSet>> /\ InitVars /\ call \in PipeCalls

\* the steps of the child
Child == ChildWrite \/ ChildExit

\* the steps of one reader thread
Reader(th) == ReadLine(th) \/ ReadEof(th)

\* the steps of Jabs.run from spoct.start() to the analysis of stderr
Runner == (\E th \in Streams : StartThread(th) \/ Join(th)) \/ Wait \/ Close

NextPipe == Child \/ (\E th \in Streams : Reader(th)) \/ Runner

\* one transfer, its two reader threads and Jabs.run
SpecPipe == InitPipe /\ [][NextPipe]_vars

\* the same under a scheduler that lets every process and thread that can
\* take a step take one
SpecPipeFair ==
  /\ SpecPipe
  /\ WF_vars(Child)
  /\ WF_vars(Reader("stdout"))
  /\ WF_vars(Reader("stderr"))
  /\ WF_vars(Runner)

(* ------------------------------ claims -------------------------------- *)

\* invocation i takes the step from position p to position q
Moves(i, p, q) == pc[i] = p /\ pc'[i] = q

\* invocation i returns or dies of an exception (it is not killed)
Leaves(i) == pc[i] \in Running /\ pc'[i] \in {"exited", "crashed"}

\* C1: of two overlapping invocations at most one passes the lock
\* acquisition and reaches the selection of the sets
C1_LockMutualExclusion ==
  \A i, j \in Inv : i # j => ~(pc[i] \in Acquired /\ pc[j] \in Acquired)

\* C2: when an invocation that acquired the lock ends (return or
\* exception), the PID file no longer exists
C2_LockReleased ==
  [][\A i \in Inv : (pc[i] \in Acquired /\ Leaves(i)) => ~pidfile'.exists]_vars

\* C3: an invocation that has begun to execute its queue ends only after
\* the pipeline of every set of the queue has been started
C3_EverySetStarted ==
  [][\A i \in Inv :
       (pc[i] \in Executing /\ Leaves(i)) => cur[i] = Len(sets[i])]_vars

\* C4: without force, the interval filter keeps every set that has no
\* interval
C4_NoIntervalEligible ==
  [][\A i \in Inv :
       (Moves(i, "f_interval", "f_ping") /\ ~args[i].force)
         => \A s \in Range(sets[i]) :
              cfg[s].interval = 0 => s \in Range(sets'[i])]_vars

\* the case of C5: a non-forced, non-safe invocation i filters set s by its
\* interval after an earlier invocation has written the cache entry of s
C5_Case(i, s) ==
  /\ ~args[i].force /\ ~args[i].safe
  /\ s \in Range(sets[i])
  /\ cfg[s].interval > 0
  /\ stamped[s] # <<>>
  /\ stamped[s][1] < starttime[i]

\* C5 as stated: the second invocation keeps the set if and only if
\* t2 - t1 >= I, t1 and t2 being the start times of the two invocations
C5_IntervalIdempotence ==
  [][\A i \in Inv, s \in SetIds :
       (Moves(i, "f_interval", "f_ping") /\ C5_Case(i, s))
         => (s \in Range(sets'[i])
               <=> starttime[i] - stamped[s][1]
                     >= cfg[s].interval * TicksPerSec)]_vars

\* C5 amended: the second invocation keeps the set if and only if
\* t2 - floor(t1) >= I, floor(t1) being t1 cut to whole seconds
C5_IntervalIdempotenceSecs ==
  [][\A i \in Inv, s \in SetIds :
       (Moves(i, "f_interval", "f_ping") /\ C5_Case(i, s))
         => (s \in Range(sets'[i])
               <=> starttime[i]
                     - (stamped[s][1] \div TicksPerSec) * TicksPerSec
                     >= cfg[s].interval * TicksPerSec)]_vars

\* the second invocation has kept a set on the boundary lastRun + I = now
C5_Witness ==
  \E i \in Inv, s \in SetIds :
    /\ pc[i] = "f_ping"
    /\ C5_Case(i, s)
    /\ starttime[i] = (cache[s][1] + cfg[s].interval) * TicksPerSec

\* invocation i writes the cache entry of its current set
WritesCache(i) ==
  /\ Moves(i, "phase_c", "set_end")
  /\ cfg[CurSet(i)].interval > 0
  /\ ~args[i].safe

\* C6 as stated: the timestamp written in Phase C is the time of the write
C6_StampIsTimeOfWrite ==
  [][\A i \in Inv :
       WritesCache(i)
         => cache'[CurSet(i)][1] >= now \div TicksPerSec]_vars

\* C6 amended: the timestamp written in Phase C is the start time of the
\* invocation in whole seconds, and a non-forced invocation keeps a set
\* only if it started at least I after the start (in whole seconds) of the
\* invocation that wrote the entry
C6_StampIsStartOfInvocation ==
  [][\A i \in Inv :
       /\ WritesCache(i)
            => /\ cache'[CurSet(i)] # <<>>
               /\ cache'[CurSet(i)][1] * TicksPerSec <= starttime[i]
               /\ starttime[i] < (cache'[CurSet(i)][1] + 1) * TicksPerSec
       /\ (Moves(i, "f_interval", "f_ping") /\ ~args[i].force)
            => \A s \in Range(sets'[i]) :
                 stamped[s] # <<>>
                   => starttime[i]
                        >= (stamped[s][1] \div TicksPerSec + cfg[s].interval)
                             * TicksPerSec]_vars

\* a set that ran after another one has its entry written a second or more
\* after the start of the invocation
C6_Witness ==
  \E i \in Inv :
    /\ pc[i] = "set_end"
    /\ cur[i] > 1
    /\ cfg[CurSet(i)].interval > 0 /\ ~args[i].safe
    /\ cache[CurSet(i)] = <<starttime[i] \div TicksPerSec>>
    /\ now \div TicksPerSec > starttime[i] \div TicksPerSec

\* C7: the cache entry of a set changes only in Phase C of an invocation
\* that has waited for the transfer of every directory of the set; a step
\* that ends an invocation earlier (a kill included) leaves it as it was
C7_CacheWrittenAfterTransfers ==
  [][\A s \in SetIds :
       (cache'[s] # cache[s] \/ stamped'[s] # stamped[s])
         => \E i \in Inv :
              /\ Moves(i, "phase_c", "set_end")
              /\ CurSet(i) = s
              /\ ~args[i].safe
              /\ xi[i] = cfg[s].ndirs + 1]_vars

\* the entry of a set of two directories has been written
C7_Witness ==
  \E i \in Inv :
    /\ pc[i] = "set_end"
    /\ cfg[CurSet(i)].ndirs = 2
    /\ xi[i] = 3
    /\ stamped[CurSet(i)] = <<starttime[i]>>

InPriOrder(q) ==
  \A a, b \in 1..Len(q) :
    a < b =>
      \/ cfg[q[a]].pri < cfg[q[b]].pri
      \/ cfg[q[a]].pri = cfg[q[b]].pri /\ q[a] < q[b]

\* C9: the queue of an invocation is in non-decreasing pri, and sets of
\* equal pri are in the order of their sections, from the sort through
\* every filter; the loop executes the queue as it is, one set after the
\* other from the front
C9_PriorityOrder ==
  [][\A i \in Inv :
       /\ InPriOrder(sets'[i])
       /\ (pc[i] \in Executing /\ pc'[i] \in Executing)
            => /\ sets'[i] = sets[i]
               /\ cur'[i] \in {cur[i], cur[i] + 1}
               /\ cur'[i] = cur[i] + 1 => pc'[i] = "set_begin"
       /\ (pc[i] \notin Executing /\ pc'[i] \in Executing) => cur'[i] = 1]_vars

\* the last of three sets is begun: the two sets of equal pri ran first in
\* the order of the file, the first section of the file runs last
C9_Witness ==
  \E i \in Inv :
    /\ pc[i] = "pre"
    /\ cur[i] = 3
    /\ sets[i] = <<2, 3, 1>>

\* the time of day of the start of invocation i lies in RUNTIME of set s
InWindow(i, s) ==
  /\ cfg[s].runtime[1] * TicksPerSec <= TimeOfDay(starttime[i])
  /\ TimeOfDay(starttime[i]) <= cfg[s].runtime[2] * TicksPerSec

\* C10: without force a set passes the runtime filter if and only if
\* runtime.start <= time of day <= runtime.end; with force neither the
\* runtime nor the interval filter drops a set; disabled sets are dropped
\* with and without force
C10_RuntimeWindow ==
  [][\A i \in Inv :
       /\ Moves(i, "f_runtime", "f_interval")
            => \A s \in Range(sets[i]) :
                 s \in Range(sets'[i]) <=> (args[i].force \/ InWindow(i, s))
       /\ (Moves(i, "f_interval", "f_ping") /\ args[i].force)
            => sets'[i] = sets[i]
       /\ Moves(i, "f_disabled", "f_runtime")
            => \A s \in 1..Len(cfg) :
                 s \in Range(sets'[i]) <=> ~cfg[s].disabled]_vars

\* a non-forced invocation started on the last tick of a window has kept
\* the set, and has dropped a disabled one
C10_Witness ==
  \E i \in Inv, s \in SetIds :
    /\ pc[i] = "f_interval"
    /\ ~args[i].force
    /\ s \in Range(sets[i])
    /\ TimeOfDay(starttime[i]) = cfg[s].runtime[2] * TicksPerSec
    /\ TimeOfDay(starttime[i]) = cfg[s].runtime[1] * TicksPerSec
    /\ \E d \in 1..Len(cfg) : cfg[d].disabled

\* C11: a set with ping and one remote endpoint, source or destination, is
\* in the queue that is executed only if the ping of its host returned 0
C11_PingFilter ==
  \A i \in Inv :
    pc[i] \in Executing
      => \A s \in Range(sets[i]) :
           (cfg[s].ping /\ (cfg[s].remsrc # cfg[s].remdst)) => s \in hup[i]

\* invocation i is done with its current set: `continue`, the end of the
\* loop body, or the return after the last set
LeavesSet(i) ==
  /\ pc[i] \in Executing
  /\ \/ pc'[i] = "set_begin" /\ cur'[i] = cur[i] + 1
     \/ pc'[i] = "exited" /\ ret'[i] = <<0>>

\* the transfers that the current set of invocation i has spawned
Spawns(i) == SelectSeq(trace[i], LAMBDA e : e[1] = "spawn")

\* C12: when a pre-command of a set with skipOnPreError returns non-zero,
\* the loop over the pre-commands is left with the commands that follow not
\* run, the set is marked failed, nothing has been spawned for the set, and
\* the next step of the invocation starts the next set of the queue (or
\* returns 0 after the last one)
C12_PreCommandAbort ==
  [][\A i \in Inv :
       /\ (pc[i] = "pre" /\ cfg[CurSet(i)].skiponpreerror
             /\ failed'[i] /\ ~failed[i])
            => /\ pc'[i] = "pre_break"
               /\ pk'[i] = pk[i]
       /\ (pc[i] = "pre_break" /\ pc'[i] # "pre_break")
            => /\ ~setsuccess[i]
               /\ Spawns(i) = <<>>
               /\ pc'[i] \in {"set_begin", "exited", "killed"}
               /\ cur[i] < Len(sets[i])
                    => pc'[i] \in {"set_begin", "killed"}
               /\ pc'[i] = "set_begin"
                    => cur'[i] = cur[i] + 1 /\ sets'[i] = sets[i]]_vars

\* the first of two pre-commands has failed and a set is queued behind
C12_Witness ==
  \E i \in Inv :
    /\ pc[i] = "pre_break"
    /\ pk[i] = 1
    /\ cfg[CurSet(i)].pre = 2
    /\ cur[i] < Len(sets[i])

\* the current set of invocation i has mailed a report with this subject
Mailed(i, subject) ==
  \E k \in 1..Len(trace[i]) :
    trace[i][k][1] = "mail" /\ trace[i][k][2] = subject

\* C13: a non-safe invocation is done with a set that has mailTo and was
\* aborted by a failing pre-command only after the report with the subject
\* "Backup of <name> FAILED" has been sent
C13_ReportAfterAbort ==
  [][\A i \in Inv :
       (LeavesSet(i) /\ pc[i] = "pre_break"
          /\ cfg[CurSet(i)].mailto /\ ~args[i].safe)
         => Mailed(i, <<"Backup of", CurSet(i), "FAILED">>)]_vars

\* C14: an invocation is done with a set, whether it ran to its end, was
\* aborted by a pre-command or was skipped by the destination check, only
\* after Phase U of the set
C14_UmountOnEveryPath ==
  [][\A i \in Inv :
       LeavesSet(i) => pc[i] \in {"phase_n", "phase_k"}]_vars

\* C16: a non-safe invocation leaves the transfer loop of a set only after
\* one transfer has been spawned for every entry of backupList, in order;
\* after the end of a transfer, failed or not, comes the next entry
C16_TransferLoop ==
  [][\A i \in Inv :
       /\ (~args[i].safe /\ pc[i] \in {"xfer", "xfer_wait"}
             /\ pc'[i] \notin {"xfer", "xfer_wait", "killed"})
            => /\ Len(Spawns(i)) = cfg[CurSet(i)].ndirs
               /\ \A k \in 1..Len(Spawns(i)) : Spawns(i)[k][2] = k
       /\ (pc[i] = "xfer_wait" /\ pc'[i] \notin {"xfer_wait", "killed"})
            => pc'[i] = IF xi[i] < cfg[CurSet(i)].ndirs
                        THEN "xfer" ELSE "phase_c"]_vars

\* C17: the subject of a report is "Backup of <name> OK" if no pre-command
\* of the set returned non-zero and no transfer of the set was a hard
\* failure, "Backup of <name> FAILED" otherwise; the success flag is true
\* when the pre-commands of a set begin and, once false, stays false until
\* the invocation is done with the set
C17_SubjectReflectsOutcome ==
  [][\A i \in Inv :
       /\ (Len(trace'[i]) > Len(trace[i])
             /\ trace'[i][Len(trace'[i])][1] = "mail")
            => trace'[i][Len(trace'[i])][2]
                 = <<"Backup of", CurSet(i),
                     IF failed[i] THEN "FAILED" ELSE "OK">>
       /\ Moves(i, "set_begin", "pre") => setsuccess'[i]
       /\ (pc[i] \in Executing /\ pc'[i] \in Executing
             /\ cur'[i] = cur[i] /\ ~setsuccess[i])
            => ~setsuccess'[i]]_vars

\* a report "FAILED" has been sent for a set whose second directory was a
\* hard failure, and a report "OK" can be sent as well
C17_Witness ==
  \E i \in Inv :
    /\ pc[i] = "phase_k"
    /\ cfg[CurSet(i)].ndirs = 2
    /\ failed[i]
    /\ Mailed(i, <<"Backup of", CurSet(i), "FAILED">>)

\* the function has been evaluated on the arguments held by call
Called(f) == call.fn = f /\ call.out # <<>>

\* C15: a transfer clears the success flag if and only if its exit code is
\* non-zero or a line of its stderr lacks "(will try again)"; otherwise
\* (exit code 0, every line with the text, or no stderr) the flag is left
\* as it was
C15_TransferClassification ==
  Called("analyze")
    => call.out[1]
         = (call.setsuccess /\ ~HardFailure(call.ret, call.output))

\* exit code 0 and two lines of stderr, each with the retry text
C15_Witness ==
  /\ Called("analyze")
  /\ call.ret = 0
  /\ call.output = <<RetryMark, "\n", RetryMark>>
  /\ call.out = <<TRUE>>

\* i is the largest value in 0..n such that 2^i divides day
LargestPower(n, day, i) ==
  /\ i \in 0..n
  /\ day % 2 ^ i = 0
  /\ \A j \in 0..n : day % 2 ^ j = 0 => j <= i

\* the suffix that a call of either function has computed
SufOf(c) == IF c.fn = "hanoi" THEN c.out[1] ELSE c.out[1][2]

\* C18: for sets >= 1 and today >= firstDay both functions give chr('A'+i),
\* i the largest value in 0..sets such that 2^i divides
\* day = (today - firstDay) + 1: a letter of 'A'..chr('A'+sets); with
\* sets = 3 day 1 gives 'A', day 2 gives 'B', day 8 gives 'D'
C18_HanoiSuffix ==
  ((Called("hanoi") \/ Called("calcHanoi")) /\ call.hanoi >= 1)
    => LET day == call.today - call.hanoiday + 1
       IN /\ \E i \in 0..call.hanoi :
               /\ LargestPower(call.hanoi, day, i)
               /\ SufOf(call) = Letters[i + 1]
          /\ Called("calcHanoi") => call.out[1][1] = day
          /\ (call.hanoi = 3 /\ day = 1) => SufOf(call) = "A"
          /\ (call.hanoi = 3 /\ day = 2) => SufOf(call) = "B"
          /\ (call.hanoi = 3 /\ day = 8) => SufOf(call) = "D"

\* jabs.py has computed 'D' on day 8 of a rotation of 3 sets
C18_Witness ==
  /\ Called("hanoi")
  /\ call.hanoi = 3
  /\ call.today - call.hanoiday + 1 = 8
  /\ call.out = <<"D">>

\* C19: with sets = n, in the 2^n days that begin on the day of the call
\* the letter chr('A'+j) is produced 2^(n-1-j) times for j < n, and the
\* highest letter chr('A'+n) once
C19_HanoiFrequency ==
  (Called("hanoi") /\ call.hanoi >= 1)
    => LET n == call.hanoi
           window == call.today .. (call.today + 2 ^ n - 1)
           times(j) ==
             Cardinality({q \in window :
                            HanoiSuf(n, call.hanoiday, q) = Letters[j + 1]})
       IN /\ call.out[1] = HanoiSuf(n, call.hanoiday, call.today)
          /\ \A j \in 0..n :
               times(j) = IF j = n THEN 1 ELSE 2 ^ (n - 1 - j)

\* a window of 8 days that begins in the middle of a cycle of 3 sets
C19_Witness ==
  /\ Called("hanoi")
  /\ call.hanoi = 3
  /\ call.today - call.hanoiday + 1 = 6
  /\ call.out = <<"B">>

\* C20: no "{setname}" and no "{dirname}" is left in the command line of an
\* entry of backupList, in an option, in the source or in the destination
C20_TemplateSubstitution ==
  Called("cmdr")
    => \A k \in 1..Len(call.out[1]) :
         \A j \in 1..Len(call.out[1][k]) :
           call.out[1][k][j] \notin {"{setname}", "{dirname}"}

\* the current set of invocation i has done this (an event of its trace)
Did(i, what) == \E k \in 1..Len(trace[i]) : trace[i][k][1] = what

\* C21: whatever the parent directory of the destination holds, local or
\* remote, no --link-dest argument of the transfer names the directory
\* base + sep + hanoisuf, the generation that is about to be overwritten
C21_HardLinkExclusion ==
  Called("plink")
    => \A k \in 1..Len(call.out[1].linkdest) :
         call.out[1].linkdest[k]
           # <<"--link-dest=">> \o call.s.dst \o <<call.s.sep>>
               \o Str(call.hanoisuf)

\* the generation A is a directory next to an older generation B, and only
\* B is linked against
C21_Witness ==
  /\ Called("plink")
  /\ call.hanoisuf = "A"
  /\ \E k \in 1..Len(call.dirs) :
       call.dirs[k].name = <<"b", ".", "A">> /\ call.dirs[k].isdir
  /\ call.out[1].linkdest = << <<"--link-dest=", "p", "/", "b", ".", "B">> >>

\* C22: a safe invocation removes no directory of the delete list
C22_SafeKeepsDeleteList ==
  \A i \in Inv : args[i].safe => ~Did(i, "rmtree")

\* C23: a safe invocation runs neither mount nor umount
C23_SafeNoMount ==
  \A i \in Inv : args[i].safe => ~Did(i, "mount") /\ ~Did(i, "umount")

\* C24: a step of a safe invocation spawns no transfer, leaves every entry
\* of the interval cache as it is, neither removes nor creates the symlink
\* at dst and sends no mail; when it leaves the loop over backupList for
\* Phase C the command line of every entry has been computed, in order
C24_SafeModeNoEffects ==
  [][\A i \in Inv :
       (args[i].safe /\ pc'[i] # pc[i])
         => /\ cache' = cache
            /\ \A k \in 1..Len(trace'[i]) :
                 trace'[i][k][1] \notin {"spawn", "unlink", "symlink", "mail"}
            /\ pc'[i] = "phase_c"
                 => LET cmds == SelectSeq(trace'[i],
                                          LAMBDA e : e[1] = "cmdline")
                    IN /\ Len(cmds) = cfg[CurSet(i)].ndirs
                       /\ \A k \in 1..Len(cmds) : cmds[k][2] = k]_vars

\* a safe invocation is past the symlink, the cache and the mail of a set
\* with HANOI, INTERVAL and MAILTO whose command line it has computed
C24_Witness ==
  \E i \in Inv :
    /\ args[i].safe
    /\ pc[i] = "phase_k"
    /\ cfg[CurSet(i)].hanoi > 0
    /\ cfg[CurSet(i)].interval > 0
    /\ cfg[CurSet(i)].mailto
    /\ Did(i, "cmdline")

\* C25: in non-safe mode, for a set with a Hanoi suffix and a local dst, if
\* dst is absent or a symlink (to any target, existing or not) before
\* Phase R, then Phase R does not raise and dst is afterwards a symlink to
\* dst + sep + suffix
C25_SymlinkRotation ==
  (Called("phaseR") /\ ~call.safe /\ call.hanoisuf # "" /\ ~call.s.remdst
     /\ call.d.kind \in {"absent", "link"})
    => /\ ~call.out[1].raised
       /\ call.out[1].dst.kind = "link"
       /\ call.out[1].dst.to = call.hanoisuf

\* process p holds the lock for the caller i: the PID file exists and
\* holds the PID of a process that is alive
HeldBy(p) == pidfile.exists /\ pidfile.pid = p /\ pc[p] \in Running

\* the check of the lock by invocation i: it fails exactly when a process
\* that is alive holds the lock, and then Jabs.run returns 0 in batch mode
\* or 12 otherwise, with the PID file as it was and no set executed
LockCheck(i) ==
  (pc[i] = "checkpid" /\ pc'[i] \notin {"checkpid", "killed"})
    => IF \E p \in Inv : HeldBy(p)
       THEN /\ pc'[i] = "exited"
            /\ ret'[i] = IF args[i].batch THEN <<0>> ELSE <<12>>
            /\ pidfile' = pidfile
       ELSE pc'[i] = "openpid"

\* the write of the PID by invocation i: the file holds exactly its PID
LockWrite(i) ==
  (pc[i] = "writepid" /\ pc'[i] \notin {"writepid", "killed"})
    => /\ pidfile' = [exists |-> TRUE, pid |-> i]
       /\ pc'[i] = "f_disabled"

\* C26, as stated: acquisition fails exactly when the PID file holds the
\* PID of a process that is alive (Jabs.run then returns 0 in batch mode or
\* 12 otherwise, leaves the file as it is and executes no set); in every
\* other case it succeeds and the file then holds exactly the current PID
C26_LockContractAsStated ==
  [][\A i \in Inv :
       /\ LockCheck(i)
       /\ (pc[i] = "openpid" /\ pc'[i] \notin {"openpid", "killed"})
            => pc'[i] = "writepid"
       /\ LockWrite(i)]_vars

\* C26, amended: as stated, except that when the lock is free and the PID
\* file cannot be opened for writing Jabs.run returns 15, with the file as
\* it was and no set executed
C26_LockContract ==
  [][\A i \in Inv :
       /\ LockCheck(i)
       /\ (pc[i] = "openpid" /\ pc'[i] \notin {"openpid", "killed"})
            => \/ pc'[i] = "writepid"
               \/ /\ pc'[i] = "exited"
                  /\ ret'[i] = <<15>>
                  /\ pidfile' = pidfile
       /\ LockWrite(i)]_vars

\* an invocation has been turned away with 12 by a holder that is alive
\* and executes a set
C26_Witness ==
  \E i, p \in Inv :
    /\ pc[i] = "exited" /\ ret[i] = <<12>>
    /\ HeldBy(p)
    /\ pc[p] \in Executing

\* C27: the check of the lock by the process whose own PID is in the PID
\* file succeeds: it goes on to write that PID again
C27_AcquireIdempotent ==
  [][\A i \in Inv :
       (pc[i] = "checkpid" /\ pidfile.exists /\ pidfile.pid = i
          /\ pc'[i] \notin {"checkpid", "killed"})
         => pc'[i] = "openpid"]_vars

\* C28: an invocation that ends on its configuration file (it cannot be
\* opened or parsed, has no Global section, lacks PIDFILE or holds a value
\* that does not parse) ends with status 2, with the PID file as it was
C28_ConfigErrorExit2 ==
  [][\A i \in Inv :
       (pc[i] \in {"idle", "exited"} /\ pc'[i] \in {"exited", "crashed"})
         => ret'[i] = <<2>> /\ pidfile' = pidfile]_vars

\* C29: a forced invocation that names one enabled set of the
\* configuration (one that runs rsync or rclone without hard links) and
\* has begun that set ends by returning 0, that set being the only one it
\* executed (or by returning 1 when the program cannot be executed)
C29_ForcedNamedRun ==
  [][\A i \in Inv :
       (pc[i] \in Executing /\ pc'[i] \in {"exited", "crashed"}
          /\ args[i].force /\ Len(args[i].only) = 1
          /\ Lower(SetNames[CurSet(i)]) = Lower(args[i].only[1])
          /\ ~cfg[CurSet(i)].hardlink
          /\ cfg[CurSet(i)].program \in {"rsync", "rclone"})
         => /\ pc'[i] = "exited"
            /\ ret'[i] \in {<<0>>, <<1>>}
            /\ Len(sets[i]) = 1 /\ cur[i] = 1]_vars

\* C30: in non-safe mode, with or without mailTo, the step that follows
\* the command line of an entry of backupList spawns the transfer of that
\* entry (or returns 1 because the program cannot be executed)
C30_LogWithoutMailTo ==
  [][\A i \in Inv :
       (pc[i] = "xfer" /\ ~args[i].safe
          /\ cfg[CurSet(i)].program \in {"rsync", "rclone"}
          /\ pc'[i] \notin {"xfer", "killed"})
         => \/ pc'[i] = "xfer_wait" /\ Did(i, "spawn")'
            \/ pc'[i] = "exited" /\ ret'[i] = <<1>>]_vars

\* the name of the directory that a --link-dest argument of the call names
LinkedName(ld) ==
  LET prefix == <<"--link-dest=">> \o Split(call.s.dst)[1] \o <<"/">>
  IN SubSeq(ld, Len(prefix) + 1, Len(ld))

\* C31: every directory passed as --link-dest has a name that is base or
\* starts with base + sep, and is a directory of the listing by lstat; a
\* sibling whose name only starts with base is never linked against
C31_AncestorNameFilter ==
  Called("plink")
    => \A k \in 1..Len(call.out[1].linkdest) :
         LET name == LinkedName(call.out[1].linkdest[k])
             base == Split(call.s.dst)[2]
         IN /\ \/ name = base
               \/ /\ Len(name) > Len(base)
                  /\ Take(name, Len(base) + 1) = base \o <<call.s.sep>>
            /\ \E j \in 1..Len(call.dirs) :
                 call.dirs[j].name = name /\ call.dirs[j].isdir

\* C32: the search for previous backups of a set with hard links never
\* ends the invocation: the step that begins a set goes on to the
\* pre-commands and the transfer loop
C32_DiscoveryNeverAborts ==
  [][\A i \in Inv :
       (pc[i] = "set_begin" /\ cfg[CurSet(i)].hardlink
          /\ pc'[i] \notin {"set_begin", "killed"})
         => pc'[i] = "pre"]_vars

\* C33: an invocation is done with a set, whether the set ran to its end,
\* was aborted by a pre-command or was skipped by the destination check,
\* only by the step that deletes its log files, its datefile and its temp
\* directory
C33_TempStateDestroyed ==
  [][\A i \in Inv : LeavesSet(i) => pc[i] = "phase_k"]_vars

\* the place of an event in the order mount, pre-commands, transfer loop,
\* symlink rotation, delete list, cache update, umount, notification
PhaseRank(e) ==
  CASE e[1] = "mount" -> 1
    [] e[1] = "pre" -> 2
    [] e[1] \in {"cmdline", "spawn"} -> 3
    [] e[1] \in {"unlink", "symlink"} -> 4
    [] e[1] = "rmtree" -> 5
    [] e[1] = "cache" -> 6
    [] e[1] = "umount" -> 7
    [] e[1] = "mail" -> 8

\* C34: what a set does is done in the order mount, pre-commands, transfer
\* loop, symlink rotation, delete list, cache update, umount, notification
C34_PhaseOrder ==
  \A i \in Inv :
    \A j, k \in 1..Len(trace[i]) :
      j < k => PhaseRank(trace[i][j]) <= PhaseRank(trace[i][k])

\* C35: a set whose destination check fails is skipped: nothing has been
\* spawned for it, the step leaves the interval cache as it is, the
\* symlink at dst has been neither removed nor created, and the invocation
\* goes on with the next set of the queue (or returns 0 after the last)
C35_CheckDstSkip ==
  [][\A i \in Inv :
       /\ (pc[i] = "checkdst" /\ pc'[i] \notin {"checkdst", "killed"})
            => \/ pc'[i] = "xfer"
               \/ pc'[i] = "dst_skip" /\ cfg[CurSet(i)].checkdst
       /\ (pc[i] = "dst_skip" /\ pc'[i] \notin {"dst_skip", "killed"})
            => /\ Spawns(i) = <<>>
               /\ ~Did(i, "unlink") /\ ~Did(i, "symlink")
               /\ cache' = cache
               /\ IF cur[i] < Len(sets[i])
                  THEN /\ pc'[i] = "set_begin"
                       /\ cur'[i] = cur[i] + 1
                       /\ sets'[i] = sets[i]
                  ELSE pc'[i] = "exited" /\ ret'[i] = <<0>>]_vars

\* the destination of a set was not found and a set is queued behind it
C35_Witness ==
  \E i \in Inv :
    /\ pc[i] = "dst_skip"
    /\ cfg[CurSet(i)].checkdst
    /\ cur[i] < Len(sets[i])

\* C36: a pre-command that returns non-zero aborts the set, so that nothing
\* is spawned for it, unless SKIPONPREERROR is configured as false, in the
\* section of the set or in Global
C36_SkipOnPreErrorDefault ==
  [][\A i \in Inv :
       (pc[i] = "pre" /\ failed'[i] /\ ~failed[i]
          /\ cfg[CurSet(i)].skipconf # <<FALSE>>)
         => pc'[i] = "pre_break"]_vars

\* set s is named on the command line of invocation i, or no set is
Named(i, s) ==
  \/ args[i].only = <<>>
  \/ \E j \in 1..Len(args[i].only) :
       Lower(SetNames[s]) = Lower(args[i].only[j])

\* C39: the set an invocation executes is one that no filter drops: it is
\* enabled, named on the command line if any set is, inside its runtime
\* window and due by its interval unless the run is forced, and its host
\* answered the ping if it is pinged; only the cache entry of a set that is
\* being executed is written; nothing is done before the filters are
\* through, and the invocation that is left with no set returns 0 there
C39_DroppedSetNoEffect ==
  [][\A i \in Inv :
       /\ pc[i] \in Executing
            => LET s == CurSet(i)
               IN /\ ~cfg[s].disabled
                  /\ Named(i, s)
                  /\ Pinged(cfg[s]) => s \in hup[i]
                  /\ \/ args[i].force
                     \/ /\ cfg[s].runtime[1] * TicksPerSec
                             <= starttime[i] % (DaySecs * TicksPerSec)
                        /\ starttime[i] % (DaySecs * TicksPerSec)
                             <= cfg[s].runtime[2] * TicksPerSec
                        /\ cfg[s].interval > 0
                        /\ pc[i] \in {"set_begin", "pre", "checkdst", "xfer",
                                      "xfer_wait", "phase_c"}
                             => (IF Len(cache[s]) = 1 THEN cache[s][1]
                                 ELSE 0) + cfg[s].interval
                                  <= starttime[i] \div TicksPerSec
       /\ \A s \in SetIds :
            cache'[s] # cache[s]
              => \E j \in Inv : pc[j] \in Executing /\ CurSet(j) = s
       /\ pc[i] \in Scheduling => trace[i] = <<>>
       /\ (pc[i] = "f_ping" /\ pc'[i] \notin {"f_ping", "killed"})
            => \/ pc'[i] = "set_begin" /\ sets'[i] # <<>>
               \/ pc'[i] = "exited" /\ ret'[i] = <<0>>]_vars

\* a transfer of one set is spawned by an invocation that has dropped
\* another set of the configuration file
C39_Witness ==
  \E i \in Inv :
    /\ pc[i] = "xfer_wait"
    /\ \E s \in 1..Len(cfg) : s \notin Range(sets[i])

\* C40: the interval filter keeps a set with a positive interval shorter
\* than the time since the epoch whose cache file is missing or does not
\* hold a decimal integer, and the invocation goes on to the ping filter
C40_MissingCacheIsEpoch ==
  [][\A i \in Inv :
       (pc[i] = "f_interval" /\ pc'[i] \notin {"f_interval", "killed"})
         => /\ pc'[i] = "f_ping"
            /\ \A s \in Range(sets[i]) :
                 (cfg[s].interval > 0 /\ Len(cache[s]) # 1
                    /\ cfg[s].interval * TicksPerSec < starttime[i])
                   => s \in Range(sets'[i])]_vars

\* an invocation that is not forced has kept a set whose cache file is
\* corrupt
C40_Witness ==
  \E i \in Inv :
    /\ pc[i] = "f_ping"
    /\ ~args[i].force
    /\ \E s \in Range(sets[i]) :
         /\ cfg[s].interval > 0
         /\ Len(cache[s]) = 2
         /\ cfg[s].interval * TicksPerSec < starttime[i]

\* the lines of the transfer that went to stream th, in emission order
Emitted(th) ==
  SelectSeq([k \in 1..Len(call.script) |-> k],
            LAMBDA k : call.script[k] = th)

\* C37: whatever finite interleaving of stdout and stderr lines the child
\* writes, with pipes that hold PipeCap lines, the child exits, both
\* readers reach the end of their stream and Jabs.run gets past wait and
\* both joins
C37_NoPipeDeadlock ==
  <>(/\ call.child = "exited"
     /\ call.thr.stdout = "done"
     /\ call.thr.stderr = "done"
     /\ call.runner = "done")

\* Jabs.run is past the joins of a transfer whose child had to wait for
\* room in a pipe
C37_Witness ==
  /\ call.fn = "communicate"
  /\ call.runner = "done"
  /\ call.stalled

====
